---- MODULE Spec2Model ----
(***************************************************************************)
(* Model of telegram_api.py, the FastAPI bridge in front of one Telethon   *)
(* client.  A Python string is a tuple of one-character strings, so that   *)
(* lstrip, isdigit, int, strip, lower and the substring test are computed  *)
(* as Python computes them.  A Python dict is a function on its keys.      *)
(***************************************************************************)
EXTENDS Integers, Sequences, FiniteSets, TLC

VARIABLES phase, client, connected, files, staged, req, calls, resp, fin, fout

vars == <<phase, client, connected, files, staged, req, calls, resp, fin, fout>>

(* ------------------------------ bounds -------------------------------- *)

\* longest chat/user reference string
MaxRefLen == 3
\* longest first/last name or title of a sender
MaxNameLen == 2
\* most messages, dialogs, contacts the external client returns in one list
MaxList == 2
\* most words in the type name of a presence status
MaxTagWords == 2
\* most temporary files left behind before uploads stop being modelled
MaxLeaked == 1

(* --------------------------- Python values ---------------------------- *)

\* None where a str is expected / where an int is expected
NoneStr == <<"None">>
NoneInt == -1
\* None where an object is expected
NoneObj == [cls |-> "NoneType"]

hasattr(obj, name) == name \in DOMAIN obj
getattr(obj, name, default) == IF name \in DOMAIN obj THEN obj[name] ELSE default

\* all strings over the alphabet of length at most n
Strings(alphabet, n) == UNION {[1..k -> alphabet] : k \in 0..n}

Digits == {"0", "1", "2", "3", "4", "5", "6", "7", "8", "9"}

RECURSIVE lstrip(_, _)
\* str.lstrip(chars)
lstrip(s, chars) ==
    IF s # <<>> /\ Head(s) \in chars THEN lstrip(Tail(s), chars) ELSE s

RECURSIVE rstrip(_, _)
rstrip(s, chars) ==
    IF s # <<>> /\ s[Len(s)] \in chars THEN rstrip(SubSeq(s, 1, Len(s) - 1), chars) ELSE s

\* str.strip() with no argument strips white space
strip(s) == rstrip(lstrip(s, {" "}), {" "})

\* str.isdigit(): non-empty and every character a digit
isdigit(s) == s # <<>> /\ \A i \in 1..Len(s) : s[i] \in Digits

DigitVal(c) == CHOOSE d \in 0..9 : <<"0", "1", "2", "3", "4", "5", "6", "7", "8", "9">>[d + 1] = c

RECURSIVE DecimalVal(_)
DecimalVal(s) == IF s = <<>> THEN 0 ELSE 10 * DecimalVal(SubSeq(s, 1, Len(s) - 1)) + DigitVal(s[Len(s)])

\* int(s) accepts one optional sign before the digits and raises ValueError otherwise
IntParses(s) == isdigit(s) \/ (s # <<>> /\ Head(s) \in {"-", "+"} /\ isdigit(Tail(s)))
IntOf(s) == IF Head(s) = "-" THEN 0 - DecimalVal(Tail(s))
            ELSE IF Head(s) = "+" THEN DecimalVal(Tail(s)) ELSE DecimalVal(s)

UpperCase == <<"A", "B", "C", "D", "E", "F", "G", "H", "I", "J", "K", "L", "M",
               "N", "O", "P", "Q", "R", "S", "T", "U", "V", "W", "X", "Y", "Z">>
LowerCase == <<"a", "b", "c", "d", "e", "f", "g", "h", "i", "j", "k", "l", "m",
               "n", "o", "p", "q", "r", "s", "t", "u", "v", "w", "x", "y", "z">>

\* str.lower()
lower(s) == [i \in 1..Len(s) |->
               IF \E k \in 1..26 : UpperCase[k] = s[i]
               THEN LowerCase[CHOOSE k \in 1..26 : UpperCase[k] = s[i]]
               ELSE s[i]]

\* sub in s
Contains(s, sub) == \E i \in 0..(Len(s) - Len(sub)) : SubSeq(s, i + 1, i + Len(sub)) = sub

\* s[:n]
Prefix(s, n) == SubSeq(s, 1, IF Len(s) < n THEN Len(s) ELSE n)

\* datetime.isoformat()
isoformat(d) == <<"iso8601">> \o d

(* ----------------------- the normalizer (pure) ------------------------- *)

Unknown == <<"U", "n", "k", "n", "o", "w", "n">>

\* the mapping a failed dispatch leaves: no key beyond the ones already set
NoKeys == <<>>

\* x or "" for an optional str
OrEmpty(x) == IF x = NoneStr THEN <<>> ELSE x

\* the truth value of an optional int: None and 0 are false
TruthyInt(x) == x # NoneInt /\ x # 0

\* format_entity copying only the attributes the entity carries
format_entity_present_only(entity) ==
    LET carried(names) == [k \in names \cap DOMAIN entity |-> entity[k]] IN
    IF entity.cls = "User"
    THEN [id |-> entity.id, type |-> "user"]
         @@ carried({"first_name", "last_name", "username", "phone"})
    ELSE IF entity.cls = "Chat"
    THEN [id |-> entity.id, type |-> "chat"] @@ carried({"title"})
    ELSE IF entity.cls = "Channel"
    THEN [id |-> entity.id, type |-> "channel"] @@ carried({"title", "username"})
    ELSE [id |-> entity.id]

format_entity(entity) ==
    LET result == [id |-> entity.id] IN
    IF entity.cls = "User"
    THEN result @@ [type |-> "user",
                    first_name |-> getattr(entity, "first_name", NoneStr),
                    last_name |-> getattr(entity, "last_name", NoneStr),
                    username |-> getattr(entity, "username", NoneStr),
                    phone |-> getattr(entity, "phone", NoneStr)]
    ELSE IF entity.cls = "Chat"
    THEN result @@ [type |-> "chat",
                    title |-> getattr(entity, "title", NoneStr)]
    ELSE IF entity.cls = "Channel"
    THEN result @@ [type |-> "channel",
                    title |-> getattr(entity, "title", NoneStr),
                    username |-> getattr(entity, "username", NoneStr)]
    ELSE result

\* sender_name and sender_id of format_message
SenderInfo(sender) ==
    IF sender # NoneObj
    THEN [sender_name |->
            IF hasattr(sender, "first_name")
            THEN LET first == OrEmpty(getattr(sender, "first_name", <<>>))
                     last == OrEmpty(getattr(sender, "last_name", <<>>))
                     name == strip(first \o <<" ">> \o last)
                 IN IF name = <<>> THEN Unknown ELSE name
            ELSE IF hasattr(sender, "title")
            THEN sender.title
            ELSE Unknown,
          sender_id |-> sender.id]
    ELSE [sender_name |-> Unknown, sender_id |-> NoneInt]

\* the reply_to_msg_id key of format_message, set only for a reply
ReplyInfo(message) ==
    IF message.reply_to # NoneObj /\ TruthyInt(message.reply_to.reply_to_msg_id)
    THEN [reply_to_msg_id |-> message.reply_to.reply_to_msg_id]
    ELSE NoKeys

\* the has_media and media_type keys of format_message
MediaInfo(message) ==
    IF message.media # NoneObj
    THEN [has_media |-> TRUE, media_type |-> message.media.cls]
    ELSE [has_media |-> FALSE]

format_message(message) ==
    [id |-> message.id,
     date |-> IF message.date # NoneStr THEN isoformat(message.date) ELSE NoneStr,
     text |-> message.message,
     out |-> message.out]
    @@ SenderInfo(message.sender) @@ ReplyInfo(message) @@ MediaInfo(message)

(* ------------------- objects of the external library ------------------- *)

Names == Strings({"A", " "}, MaxNameLen) \cup {NoneStr}

\* an optional attribute of an object: not set on it, set to None, set to v
Optional(name, v) == {NoKeys, name :> NoneStr, name :> v}

UserEntities ==
    {[cls |-> "User", id |-> 7] @@ a @@ b @@ c @@ d :
        a \in Optional("first_name", <<"A">>), b \in Optional("last_name", <<"B">>),
        c \in Optional("username", <<"a">>), d \in Optional("phone", <<"1">>)}

ChatEntities == {[cls |-> "Chat", id |-> 8] @@ a : a \in Optional("title", <<"T">>)}

ChannelEntities ==
    {[cls |-> "Channel", id |-> 9] @@ a @@ c :
        a \in Optional("title", <<"T">>), c \in Optional("username", <<"a">>)}

\* entities of no known kind, as get_dialogs and get_entity also return them
OtherEntities == {[cls |-> "ChatForbidden", id |-> 10, title |-> <<"T">>],
                  [cls |-> "UserEmpty", id |-> 11]}

Entities == UserEntities \cup ChatEntities \cup ChannelEntities \cup OtherEntities

Senders ==
    {NoneObj}
    \cup {[cls |-> "User", id |-> 7, first_name |-> f, last_name |-> l] : f \in Names, l \in Names}
    \cup {[cls |-> "Deleted", id |-> 7, first_name |-> f] : f \in Names}
    \cup {[cls |-> c, id |-> 9, title |-> t] : c \in {"Chat", "Channel"}, t \in Names}
    \cup {[cls |-> "UserEmpty", id |-> 11]}

ReplyHeaders ==
    {NoneObj} \cup {[cls |-> "MessageReplyHeader", reply_to_msg_id |-> i] : i \in {NoneInt, 0, 5}}

Medias == {NoneObj, [cls |-> "MessageMediaPhoto"]}

Message(sender, reply_to, media, date) ==
    [cls |-> "Message", id |-> 3, date |-> date, message |-> <<"h", "i">>, out |-> FALSE,
     sender |-> sender, reply_to |-> reply_to, media |-> media]

Messages ==
    {Message(s, r, m, d) : s \in Senders, r \in ReplyHeaders, m \in Medias,
                           d \in {NoneStr, <<"d">>}}

(* ------------- the normalizer applied to one object at a time ---------- *)

\* the state of the module before the lifespan starts
ServiceIdle ==
    /\ phase = "created" /\ client = 0 /\ connected = FALSE
    /\ files = {} /\ staged = {} /\ req = NoneObj /\ calls = <<>> /\ resp = NoneObj

InitFormat == ServiceIdle /\ fin \in Entities \cup Messages /\ fout = NoneObj

ApplyFormatEntity ==
    /\ fin.cls # "Message" /\ fout = NoneObj
    /\ fout' = format_entity(fin)
    /\ UNCHANGED <<phase, client, connected, files, staged, req, calls, resp, fin>>

ApplyFormatMessage ==
    /\ fin.cls = "Message" /\ fout = NoneObj
    /\ fout' = format_message(fin)
    /\ UNCHANGED <<phase, client, connected, files, staged, req, calls, resp, fin>>

NextFormat == ApplyFormatEntity \/ ApplyFormatMessage

SpecFormat == InitFormat /\ [][NextFormat]_vars

(* --------------------------- the HTTP layer ---------------------------- *)

\* str(e) of the exceptions the external client raises
ErrMsgs == {"Cannot find any entity", "A wait of 30 seconds is required"}
\* str(e) of the ValueError of int()
ValueErrorMsg == "invalid literal for int() with base 10"
\* str(e) of the AttributeError of result.id
AttributeErrorMsg == "object has no attribute 'id'"
\* str(e) of the OSError of writing the staged file
OSErrorMsg == "No space left on device"

HTTPException(status_code, detail) == [status |-> status_code, detail |-> detail, body |-> NoneObj]

\* the handler answering with a fixed text in place of the exception's message
Caught_fixed_text(msg) == HTTPException(500, "Internal Server Error")

\* except Exception as e: raise HTTPException(status_code=500, detail=str(e))
Caught(msg) == HTTPException(500, msg)

\* a validation failure reported as the handlers report their exceptions
RequestValidationError_as_500 == HTTPException(500, "validation error")

\* the framework's answer to a request whose parameters fail their declared
\* validation: the handler is not called
RequestValidationError == HTTPException(422, "validation error")

\* a returned mapping
Ok(body) == [status |-> 200, detail |-> "", body |-> body]

\* a limit declared without its upper bound
le_unbounded(value, bound) == TRUE

\* Query(le=bound)
le(value, bound) == value <= bound

\* Query(min_length=n)
min_length(s, n) == Len(s) >= n

\* a required parameter or body field is given
Given(x) == x # NoneStr

\* a path parameter declared int
IsInt(raw) == IntParses(raw)

Req(h) == [handler |-> h, chat_id |-> <<>>, to_chat_id |-> NoneStr, message_id |-> NoneStr,
           limit |-> 0, offset_id |-> NoneInt, chat_type |-> NoneStr, query |-> NoneStr,
           text |-> NoneStr, reply_to |-> NoneInt, file |-> NoneStr]

\* one call on the external client: get_entity with its argument, or another
\* operation with the limit it is given; raised with message err, or returned ret
GetEntityCall(kind, s, i) ==
    [op |-> "get_entity", kind |-> kind, str |-> s, int |-> i, limit |-> 0,
     raised |-> FALSE, err |-> "", ret |-> NoneObj]
OpCall(op, limit) ==
    [op |-> op, kind |-> "", str |-> <<>>, int |-> 0, limit |-> limit,
     raised |-> FALSE, err |-> "", ret |-> NoneObj]
Raises(call, msg) == [call EXCEPT !.raised = TRUE, !.err = msg]
Returns(call, v) == [call EXCEPT !.ret = v]

(* ------------------------- identity resolution ------------------------- *)

Refs == Strings({"-", "1", "a"}, MaxRefLen)

\* isinstance(chat_id, str) and not chat_id.lstrip('-').isdigit()
IsHandle(ref) == ~isdigit(lstrip(ref, {"-"}))

\* the resolution at the start of a handler: what it calls, and either the
\* entity it got or the message of the exception
Resolution(ref, entities) ==
    IF IsHandle(ref) \/ IntParses(ref)
    THEN LET call == IF IsHandle(ref) THEN GetEntityCall("str", ref, 0)
                     ELSE GetEntityCall("int", <<>>, IntOf(ref))
         IN {[ok |-> FALSE, calls |-> <<Raises(call, e)>>, err |-> e, entity |-> NoneObj] :
                e \in ErrMsgs}
            \cup {[ok |-> TRUE, calls |-> <<Returns(call, x)>>, err |-> "", entity |-> x] :
                x \in entities}
    ELSE {[ok |-> FALSE, calls |-> <<>>, err |-> ValueErrorMsg, entity |-> NoneObj]}

Resolved(ref, entities) == {r \in Resolution(ref, entities) : r.ok}
Unresolved(ref) == {r \in Resolution(ref, {}) : ~r.ok}

(* -------------------- what the external client returns ----------------- *)

Ada == [cls |-> "User", id |-> 7, first_name |-> <<"A">>, last_name |-> NoneStr,
        username |-> <<"a">>, phone |-> NoneStr]
Team == [cls |-> "Chat", id |-> 8, title |-> <<"T">>]
News == [cls |-> "Channel", id |-> 9, title |-> <<"T">>, username |-> NoneStr]
Gone == [cls |-> "ChatForbidden", id |-> 10, title |-> <<"T">>]

\* entities a handler only passes on, and entities a handler looks into
Peer == {Ada}
Peers == {Ada, Team, News, Gone}

SentMessage == Message(NoneObj, NoneObj, NoneObj, <<"d">>)

ListedMessages ==
    {Message(Ada, [cls |-> "MessageReplyHeader", reply_to_msg_id |-> 5],
             [cls |-> "MessageMediaPhoto"], <<"d">>),
     Message(News, NoneObj, NoneObj, <<"d">>),
     Message(NoneObj, NoneObj, NoneObj, NoneStr)}

\* a list of at most limit items, as the client returns for limit=limit
ListsOf(items, limit) ==
    UNION {[1..k -> items] : k \in 0..(IF limit < MaxList THEN (IF limit < 0 THEN 0 ELSE limit) ELSE MaxList)}

LimitInputs(max) == {-5, 0, 1, max, max + 1}

(* ---------------------------- the lifespan ----------------------------- *)

Init == ServiceIdle /\ fin = NoneObj /\ fout = NoneObj

\* client = TelegramClient(...); await client.start(); yield
lifespan_start ==
    /\ phase = "created"
    /\ client' = 1
    /\ \/ connected' = TRUE /\ phase' = "serving"
       \/ connected' = FALSE /\ phase' = "stopped"
    /\ UNCHANGED <<files, staged, req, calls, resp, fin, fout>>

\* await client.disconnect(), once no request is in flight
lifespan_stop ==
    /\ phase = "serving" /\ resp = NoneObj
    /\ connected' = FALSE /\ phase' = "stopped"
    /\ UNCHANGED <<client, files, staged, req, calls, resp, fin, fout>>

\* requests are served between start and stop; the model follows one at a time
Idle == phase = "serving" /\ resp = NoneObj

\* a handler runs on one request and leaves one response
Serve(r, outcomes) ==
    /\ \E o \in outcomes : req' = r /\ calls' = o.calls /\ resp' = o.resp
    /\ UNCHANGED <<phase, client, connected, files, staged, fin, fout>>

Outcome(callseq, response) == [calls |-> callseq, resp |-> response]

Rejected == {Outcome(<<>>, RequestValidationError)}

\* the response is sent and the request's objects are dropped
Respond ==
    /\ resp # NoneObj
    /\ req' = NoneObj /\ calls' = <<>> /\ resp' = NoneObj /\ staged' = {}
    /\ UNCHANGED <<phase, client, connected, files, fin, fout>>

(* ---------------------------- the handlers ----------------------------- *)

\* a reference in the path is never empty; one in the query string may be
PathRefs == Refs \ {<<>>}
\* a message id as it stands in the path
MessageIds == {<<"7">>, <<"-", "7">>, <<"x">>}

T_user == <<"u", "s", "e", "r">>
T_chat == <<"c", "h", "a", "t">>
T_channel == <<"c", "h", "a", "n", "n", "e", "l">>

\* the largest limit each endpoint declares
MaxChatsLimit == 200
MaxMessagesLimit == 100
MaxHistoryLimit == 500
MaxSearchLimit == 100
MaxPhotosLimit == 50
MaxGifsLimit == 50
\* the length the last-message preview is cut to
PreviewLen == 100

\* the handler ends in its resolution
Failed(ref) == {Outcome(r.calls, Caught(r.err)) : r \in Unresolved(ref)}

\* ThenOp calling the operation once more after it has raised
ThenOp_retry(ref, entities, op, limit, rets) ==
    {[ok |-> FALSE, calls |-> r.calls, err |-> r.err, entity |-> NoneObj, ret |-> NoneObj] :
        r \in Unresolved(ref)}
    \cup {[ok |-> FALSE,
           calls |-> r.calls \o <<Raises(OpCall(op, limit), e), Raises(OpCall(op, limit), e)>>,
           err |-> e, entity |-> r.entity, ret |-> NoneObj] :
            r \in Resolved(ref, entities), e \in ErrMsgs}
    \cup {[ok |-> TRUE, calls |-> Append(r.calls, Returns(OpCall(op, limit), v)), err |-> "",
           entity |-> r.entity, ret |-> v] :
            r \in Resolved(ref, entities), v \in rets}

\* resolution of ref, then one operation on the client, which raises or returns
\* one of rets: the calls made, and the entity and the result or the message
ThenOp(ref, entities, op, limit, rets) ==
    {[ok |-> FALSE, calls |-> r.calls, err |-> r.err, entity |-> NoneObj, ret |-> NoneObj] :
        r \in Unresolved(ref)}
    \cup {[ok |-> FALSE, calls |-> Append(r.calls, Raises(OpCall(op, limit), e)), err |-> e,
           entity |-> r.entity, ret |-> NoneObj] :
            r \in Resolved(ref, entities), e \in ErrMsgs}
    \cup {[ok |-> TRUE, calls |-> Append(r.calls, Returns(OpCall(op, limit), v)), err |-> "",
           entity |-> r.entity, ret |-> v] :
            r \in Resolved(ref, entities), v \in rets}

\* one operation on the client with no resolution before it
JustOp(op, limit, rets) ==
    {[ok |-> FALSE, calls |-> <<Raises(OpCall(op, limit), e)>>, err |-> e, ret |-> NoneObj] :
        e \in ErrMsgs}
    \cup {[ok |-> TRUE, calls |-> <<Returns(OpCall(op, limit), v)>>, err |-> "", ret |-> v] :
        v \in rets}

\* the handler returns body, or its except clause answers for what was raised
Answer(a, body) == Outcome(a.calls, IF a.ok THEN body ELSE Caught(a.err))

\* what send_message, send_file, edit_message return: a message, or a list of them
SentResults == {SentMessage, [cls |-> "list"]}

\* {"success": True, "message_id": result.id, "date": ...}
SentBody(entity, result) ==
    IF hasattr(result, "id")
    THEN Ok([success |-> TRUE, message_id |-> result.id,
             date |-> IF result.date # NoneStr THEN isoformat(result.date) ELSE NoneStr])
    ELSE Caught(AttributeErrorMsg)

\* {"success": True, "message_id": result.id}
EditedBody(entity, result) ==
    IF hasattr(result, "id")
    THEN Ok([success |-> TRUE, message_id |-> result.id])
    ELSE Caught(AttributeErrorMsg)

\* {"success": True, "message_id": result.id if hasattr(result, 'id') else None}
ForwardedBody(entity, result) ==
    Ok([success |-> TRUE, message_id |-> getattr(result, "id", NoneInt)])

\* {"success": True}
SuccessBody(entity, result) == Ok([success |-> TRUE])

\* {"messages": [format_message(msg) for msg in messages], "count": len(messages)}
MessagesBody(entity, messages) ==
    Ok([messages |-> [i \in 1..Len(messages) |-> format_message(messages[i])],
        count |-> Len(messages)])

EntityBody(entity) == Ok(format_entity(entity))

health_check ==
    /\ Idle
    /\ Serve(Req("health_check"),
          {Outcome(<<>>, Ok([status |-> "ok",
                             connected |-> IF client # 0 THEN connected ELSE FALSE]))})

get_me ==
    /\ Idle
    /\ Serve(Req("get_me"), {Answer(a, EntityBody(a.ret)) : a \in JustOp("get_me", 0, Peers)})

Dialogs ==
    {[cls |-> "Dialog", entity |-> e, unread_count |-> 2, message |-> m] :
        e \in Peers, m \in {NoneObj, SentMessage}}

\* the filter with groups passing as users
KeepDialog_groups_as_users(chat_type, entity) ==
    IF chat_type # NoneStr /\ chat_type # <<>>
    THEN \/ chat_type = T_user /\ entity.cls \in {"User", "Chat"}
         \/ chat_type = T_chat /\ entity.cls = "Chat"
         \/ chat_type = T_channel /\ entity.cls = "Channel"
    ELSE TRUE

\* the chat_type filter of get_chats
KeepDialog(chat_type, entity) ==
    IF chat_type # NoneStr /\ chat_type # <<>>
    THEN \/ chat_type = T_user /\ entity.cls = "User"
         \/ chat_type = T_chat /\ entity.cls = "Chat"
         \/ chat_type = T_channel /\ entity.cls = "Channel"
    ELSE TRUE

\* chat_info of one dialog
DialogInfo(dialog) ==
    format_entity(dialog.entity)
    @@ [unread_count |-> dialog.unread_count,
        last_message |-> IF dialog.message # NoneObj
                            /\ dialog.message.message \notin {NoneStr, <<>>}
                         THEN Prefix(dialog.message.message, PreviewLen) ELSE NoneStr]

ChatsBodyOf(chat_type, dialogs) ==
    LET kept == SelectSeq(dialogs, LAMBDA d : KeepDialog(chat_type, d.entity))
    IN Ok([chats |-> [i \in 1..Len(kept) |-> DialogInfo(kept[i])], count |-> Len(kept)])

get_chats ==
    /\ Idle
    /\ \E limit \in LimitInputs(MaxChatsLimit),
       chat_type \in {NoneStr, <<>>, T_user, T_chat, T_channel, <<"b", "o", "t">>} :
        Serve([Req("get_chats") EXCEPT !.limit = limit, !.chat_type = chat_type],
              IF le(limit, MaxChatsLimit)
              THEN {Answer(a, ChatsBodyOf(chat_type, a.ret)) :
                      a \in JustOp("get_dialogs", limit, ListsOf(Dialogs, limit))}
              ELSE Rejected)

get_chat ==
    /\ Idle
    /\ \E chat_id \in PathRefs :
        Serve([Req("get_chat") EXCEPT !.chat_id = chat_id],
              Failed(chat_id)
              \cup {Outcome(r.calls, EntityBody(r.entity)) : r \in Resolved(chat_id, Peers)})

\* offset_id, when set, is passed on to the client together with the limit
get_messages ==
    /\ Idle
    /\ \E chat_id \in PathRefs, limit \in LimitInputs(MaxMessagesLimit), offset_id \in {NoneInt, 5} :
        Serve([Req("get_messages") EXCEPT !.chat_id = chat_id, !.limit = limit,
                                          !.offset_id = offset_id],
              IF le(limit, MaxMessagesLimit)
              THEN {Answer(a, MessagesBody(a.entity, a.ret)) :
                      a \in ThenOp(chat_id, Peer, "get_messages", limit,
                          ListsOf(ListedMessages, limit))}
              ELSE Rejected)

\* SendMessageRequest: message is required, reply_to is optional
send_message ==
    /\ Idle
    /\ \E chat_id \in PathRefs, text \in {NoneStr, <<"h", "i">>}, reply_to \in {NoneInt, 5} :
        Serve([Req("send_message") EXCEPT !.chat_id = chat_id, !.text = text,
                                          !.reply_to = reply_to],
              IF Given(text)
              THEN {Answer(a, SentBody(a.entity, a.ret)) :
                      a \in ThenOp(chat_id, Peer, "send_message", 0, SentResults)}
              ELSE Rejected)

get_history ==
    /\ Idle
    /\ \E chat_id \in PathRefs, limit \in LimitInputs(MaxHistoryLimit) :
        Serve([Req("get_history") EXCEPT !.chat_id = chat_id, !.limit = limit],
              IF le(limit, MaxHistoryLimit)
              THEN {Answer(a, MessagesBody(a.entity, a.ret)) :
                      a \in ThenOp(chat_id, Peer, "get_messages", limit,
                          ListsOf(ListedMessages, limit))}
              ELSE Rejected)

search_messages ==
    /\ Idle
    /\ \E chat_id \in PathRefs, query \in {NoneStr, <<"h">>}, limit \in LimitInputs(MaxSearchLimit) :
        Serve([Req("search_messages") EXCEPT !.chat_id = chat_id, !.query = query,
                                             !.limit = limit],
              IF Given(query) /\ le(limit, MaxSearchLimit)
              THEN {Answer(a, MessagesBody(a.entity, a.ret)) :
                      a \in ThenOp(chat_id, Peer, "get_messages", limit,
                          ListsOf(ListedMessages, limit))}
              ELSE Rejected)

\* ReactionRequest: emoji is required
send_reaction ==
    /\ Idle
    /\ \E chat_id \in PathRefs, message_id \in MessageIds, emoji \in {NoneStr, <<"+">>} :
        Serve([Req("send_reaction") EXCEPT !.chat_id = chat_id, !.message_id = message_id,
                                           !.text = emoji],
              IF IsInt(message_id) /\ Given(emoji)
              THEN {Answer(a, Ok([success |-> TRUE, emoji |-> emoji])) :
                      a \in ThenOp(chat_id, Peer, "SendReactionRequest", 0, {NoneObj})}
              ELSE Rejected)

reply_to_message ==
    /\ Idle
    /\ \E chat_id \in PathRefs, message_id \in MessageIds, text \in {NoneStr, <<"h", "i">>} :
        Serve([Req("reply_to_message") EXCEPT !.chat_id = chat_id, !.message_id = message_id,
                                              !.text = text],
              IF IsInt(message_id) /\ Given(text)
              THEN {Answer(a, SentBody(a.entity, a.ret)) :
                      a \in ThenOp(chat_id, Peer, "send_message", 0, SentResults)}
              ELSE Rejected)

\* EditMessageRequest: new_text is required
edit_message ==
    /\ Idle
    /\ \E chat_id \in PathRefs, message_id \in MessageIds, text \in {NoneStr, <<"h", "i">>} :
        Serve([Req("edit_message") EXCEPT !.chat_id = chat_id, !.message_id = message_id,
                                          !.text = text],
              IF IsInt(message_id) /\ Given(text)
              THEN {Answer(a, EditedBody(a.entity, a.ret)) :
                      a \in ThenOp(chat_id, Peer, "edit_message", 0, SentResults)}
              ELSE Rejected)

delete_message ==
    /\ Idle
    /\ \E chat_id \in PathRefs, message_id \in MessageIds :
        Serve([Req("delete_message") EXCEPT !.chat_id = chat_id, !.message_id = message_id],
              IF IsInt(message_id)
              THEN {Answer(a, SuccessBody(a.entity, a.ret)) :
                      a \in ThenOp(chat_id, Peer, "delete_messages", 0, {NoneObj})}
              ELSE Rejected)

mark_as_read ==
    /\ Idle
    /\ \E chat_id \in PathRefs :
        Serve([Req("mark_as_read") EXCEPT !.chat_id = chat_id],
              {Answer(a, SuccessBody(a.entity, a.ret)) :
                      a \in ThenOp(chat_id, Peer, "send_read_acknowledge", 0, {NoneObj})})

pin_message ==
    /\ Idle
    /\ \E chat_id \in PathRefs, message_id \in MessageIds :
        Serve([Req("pin_message") EXCEPT !.chat_id = chat_id, !.message_id = message_id],
              IF IsInt(message_id)
              THEN {Answer(a, SuccessBody(a.entity, a.ret)) :
                      a \in ThenOp(chat_id, Peer, "pin_message", 0, {NoneObj})}
              ELSE Rejected)

\* the second resolution starts only when the first has returned; to_chat_id is
\* required. The two references together are at most MaxRefLen + 1 characters
forward_message ==
    /\ Idle
    /\ \E chat_id \in PathRefs, message_id \in MessageIds, to_chat_id \in Refs \cup {NoneStr} :
        /\ Len(chat_id) + Len(to_chat_id) <= MaxRefLen + 1
        /\ Serve([Req("forward_message") EXCEPT !.chat_id = chat_id, !.message_id = message_id,
                                             !.to_chat_id = to_chat_id],
              IF IsInt(message_id) /\ Given(to_chat_id)
              THEN Failed(chat_id)
                   \cup {Answer([a EXCEPT !.calls = r.calls \o a.calls],
                                 ForwardedBody(a.entity, a.ret)) :
                           r \in Resolved(chat_id, Peer),
                           a \in ThenOp(to_chat_id, Peer, "forward_messages", 0, SentResults)}
              ELSE Rejected)

\* the files on disk when send_file has ended at exit, having staged path
FilesAfter(fs, path, exit) ==
    IF exit = "write raised" THEN fs \cup {path} ELSE fs \ {path}

\* file is required. The staged file is created by NamedTemporaryFile(delete=False),
\* written, closed, and unlinked in the finally of the try around client.send_file
send_file ==
    /\ Idle
    /\ \E chat_id \in PathRefs, file \in {NoneStr, <<"f">>} :
        LET path == CHOOSE n \in 1..(Cardinality(files) + 1) : n \notin files IN
        /\ req' = [Req("send_file") EXCEPT !.chat_id = chat_id, !.file = file]
        /\ IF ~Given(file)
           THEN calls' = <<>> /\ resp' = RequestValidationError /\ UNCHANGED <<files, staged>>
           ELSE \/ \E o \in Failed(chat_id) :
                     calls' = o.calls /\ resp' = o.resp /\ UNCHANGED <<files, staged>>
                \/ \E r \in Resolved(chat_id, Peer) :
                     \/ /\ calls' = r.calls /\ resp' = Caught(OSErrorMsg)
                        /\ UNCHANGED <<files, staged>>
                     \/ /\ Cardinality(files) < MaxLeaked
                        /\ calls' = r.calls /\ resp' = Caught(OSErrorMsg)
                        /\ staged' = {path} /\ files' = FilesAfter(files, path, "write raised")
                     \/ \E e \in ErrMsgs :
                        /\ calls' = Append(r.calls, Raises(OpCall("send_file", 0), e))
                        /\ resp' = Caught(e)
                        /\ staged' = {path} /\ files' = FilesAfter(files, path, "send raised")
                     \/ \E v \in SentResults :
                        /\ calls' = Append(r.calls, Returns(OpCall("send_file", 0), v))
                        /\ resp' = SentBody(r.entity, v)
                        /\ staged' = {path} /\ files' = FilesAfter(files, path, "returned")
        /\ UNCHANGED <<phase, client, connected, fin, fout>>

\* one entry of "contacts"
ContactInfo(user) ==
    [id |-> user.id,
     first_name |-> getattr(user, "first_name", NoneStr),
     last_name |-> getattr(user, "last_name", NoneStr),
     username |-> getattr(user, "username", NoneStr),
     phone |-> getattr(user, "phone", NoneStr)]

ContactsBody(users) ==
    Ok([contacts |-> [i \in 1..Len(users) |-> ContactInfo(users[i])], count |-> Len(users)])

FoundContactsBody(users) ==
    ContactsBody(SelectSeq(users, LAMBDA u : u.cls = "User"))

ContactUsers == {Ada, [cls |-> "UserEmpty", id |-> 11]}

get_contacts ==
    /\ Idle
    /\ Serve(Req("get_contacts"),
          {Answer(a, ContactsBody(a.ret)) :
                  a \in JustOp("GetContactsRequest", 0, ListsOf(ContactUsers, MaxList))})

\* query is required and not empty; the search asks for 20 results
search_contacts ==
    /\ Idle
    /\ \E query \in {NoneStr, <<>>, <<"a">>} :
        Serve([Req("search_contacts") EXCEPT !.query = query],
              IF Given(query) /\ min_length(query, 1)
              THEN {Answer(a, FoundContactsBody(a.ret)) :
                      a \in JustOp("SearchRequest", 20, ListsOf(ContactUsers, MaxList))}
              ELSE Rejected)

W_Online == <<"O", "n", "l", "i", "n", "e">>
W_Recently == <<"R", "e", "c", "e", "n", "t", "l", "y">>
W_LastWeek == <<"L", "a", "s", "t", "W", "e", "e", "k">>
W_LastMonth == <<"L", "a", "s", "t", "M", "o", "n", "t", "h">>
W_Offline == <<"O", "f", "f", "l", "i", "n", "e">>
W_Foo == <<"F", "o", "o">>
W_online == <<"o", "n", "l", "i", "n", "e">>
W_recently == <<"r", "e", "c", "e", "n", "t", "l", "y">>
W_last_week == <<"l", "a", "s", "t", "_", "w", "e", "e", "k">>
W_last_month == <<"l", "a", "s", "t", "_", "m", "o", "n", "t", "h">>
W_offline == <<"o", "f", "f", "l", "i", "n", "e">>

TagWords == {W_Online, W_Recently, W_LastWeek, W_LastMonth, W_Offline, W_Foo, W_online}

RECURSIVE Concat(_)
Concat(ws) == IF ws = <<>> THEN <<>> ELSE Head(ws) \o Concat(Tail(ws))

\* the type names a presence status can have
Tags == {Concat(ws) : ws \in UNION {[1..k -> TagWords] : k \in 1..MaxTagWords}}

\* the entities get_user_status may find: a user with or without a status, a group
StatusEntities ==
    {Ada @@ [status |-> NoneObj], Team}
    \cup {Ada @@ [status |-> [cls |-> "UserStatus", name |-> t]] : t \in Tags}

\* type(status).__name__ if status else "Unknown"
StatusStr(entity) ==
    LET status == getattr(entity, "status", NoneObj)
    IN IF status # NoneObj THEN status.name ELSE Unknown

\* the chain with "Offline" tested before "Online"
StatusLabel_offline_first(status_str) ==
    IF Contains(status_str, W_Offline) THEN W_offline
    ELSE IF Contains(status_str, W_Online) THEN W_online
    ELSE IF Contains(status_str, W_Recently) THEN W_recently
    ELSE IF Contains(status_str, W_LastWeek) THEN W_last_week
    ELSE IF Contains(status_str, W_LastMonth) THEN W_last_month
    ELSE lower(status_str)

\* the if/elif chain of get_user_status
StatusLabel(status_str) ==
    IF Contains(status_str, W_Online) THEN W_online
    ELSE IF Contains(status_str, W_Recently) THEN W_recently
    ELSE IF Contains(status_str, W_LastWeek) THEN W_last_week
    ELSE IF Contains(status_str, W_LastMonth) THEN W_last_month
    ELSE IF Contains(status_str, W_Offline) THEN W_offline
    ELSE lower(status_str)

StatusBody(entity) ==
    Ok([user_id |-> entity.id, status |-> StatusLabel(StatusStr(entity)),
        raw_status |-> StatusStr(entity)])

get_user_status ==
    /\ Idle
    /\ \E user_id \in PathRefs :
        Serve([Req("get_user_status") EXCEPT !.chat_id = user_id],
              Failed(user_id)
              \cup {Outcome(r.calls, StatusBody(r.entity)) : r \in Resolved(user_id, StatusEntities)})

Photos == {[cls |-> "Photo", id |-> 4, date |-> d] : d \in {NoneStr, <<"d">>}}

PhotosBody(entity, photos) ==
    Ok([photos |-> [i \in 1..Len(photos) |->
                      [id |-> photos[i].id,
                       date |-> IF photos[i].date # NoneStr THEN isoformat(photos[i].date)
                                ELSE NoneStr]],
        count |-> Len(photos)])

get_user_photos ==
    /\ Idle
    /\ \E user_id \in PathRefs, limit \in LimitInputs(MaxPhotosLimit) :
        Serve([Req("get_user_photos") EXCEPT !.chat_id = user_id, !.limit = limit],
              IF le(limit, MaxPhotosLimit)
              THEN {Answer(a, PhotosBody(a.entity, a.ret)) :
                      a \in ThenOp(user_id, Peer, "get_profile_photos", limit,
                          ListsOf(Photos, limit))}
              ELSE Rejected)

GifResults == {[cls |-> "InlineResult", title |-> <<"g">>, description |-> NoneStr],
               [cls |-> "InlineResult"]}

\* the loop over enumerate(result) that breaks at i >= limit
GifsBodyOf(limit, result) ==
    LET n == IF limit < 0 THEN 0 ELSE IF Len(result) < limit THEN Len(result) ELSE limit
    IN Ok([gifs |-> [i \in 1..n |-> [id |-> i - 1,
                                     title |-> getattr(result[i], "title", NoneStr),
                                     description |-> getattr(result[i], "description", NoneStr)]],
           count |-> n])

\* query is required; the inline query itself takes no limit
search_gifs ==
    /\ Idle
    /\ \E query \in {NoneStr, <<"g">>}, limit \in LimitInputs(MaxGifsLimit) :
        Serve([Req("search_gifs") EXCEPT !.query = query, !.limit = limit],
              IF Given(query) /\ le(limit, MaxGifsLimit)
              THEN {Answer(a, GifsBodyOf(limit, a.ret)) :
                      a \in JustOp("inline_query", 0, ListsOf(GifResults, MaxList))}
              ELSE Rejected)

(* ------------------------- the service as a whole ---------------------- *)

Next ==
    \/ lifespan_start \/ lifespan_stop \/ Respond
    \/ health_check \/ get_me \/ get_chats \/ get_chat \/ get_messages \/ send_message
    \/ send_file \/ get_contacts \/ search_contacts \/ get_history \/ send_reaction
    \/ reply_to_message \/ edit_message \/ delete_message \/ forward_message
    \/ mark_as_read \/ pin_message \/ search_messages \/ get_user_status
    \/ get_user_photos \/ search_gifs

Spec == Init /\ [][Next]_vars

(* ------------------------------ the claims ----------------------------- *)

\* a request has been handled and its response not yet sent
Handled == req # NoneObj /\ resp # NoneObj

RefHandlers ==
    {"get_chat", "get_messages", "send_message", "send_file", "get_history", "send_reaction",
     "reply_to_message", "edit_message", "delete_message", "forward_message", "mark_as_read",
     "pin_message", "search_messages", "get_user_status", "get_user_photos"}

\* an optional leading '-' followed by digits only
NumericLooking(ref) ==
    LET digits == IF ref # <<>> /\ Head(ref) = "-" THEN Tail(ref) ELSE ref
    IN digits # <<>> /\ \A i \in 1..Len(digits) : digits[i] \in Digits

ResolvesAs(call, ref) ==
    /\ call.op = "get_entity"
    /\ IF NumericLooking(ref)
       THEN call.kind = "int" /\ call.int = IntOf(ref)
       ELSE call.kind = "str" /\ call.str = ref

\* C1: every handler that takes a chat/user reference starts by calling get_entity,
\* with the integer value of a numeric-looking reference (an optional leading '-',
\* then digits only) and with the string itself for every other reference, "--1"
\* and "" included; forward_message does so for both of its references.
C1_Resolution ==
    (Handled /\ req.handler \in RefHandlers /\ resp.status # 422) =>
        /\ Len(calls) >= 1
        /\ ResolvesAs(calls[1], req.chat_id)
        /\ (req.handler = "forward_message" /\ ~calls[1].raised) =>
              (Len(calls) >= 2 /\ ResolvesAs(calls[2], req.to_chat_id))

\* C2: when send_file has ended, on whichever exit path, the temporary file it
\* staged is no longer on the filesystem.
C2_StagedFileGone ==
    (Handled /\ req.handler = "send_file") => staged \cap files = {}

C3_Response ==
    (Handled /\ req.handler # "health_check") =>
        \A i \in 1..Len(calls) :
            calls[i].raised =>
                /\ resp.status = 500 /\ resp.detail = calls[i].err
                /\ client = 1 /\ connected

C3_Step ==
    (resp' # resp) =>
        /\ client' = client /\ connected' = connected
        /\ phase' = "serving" /\ connected'

\* C3: when a call on the external client raises in a handler other than /health,
\* the response is HTTP 500 with the exception's message as detail; no handler
\* step and no sending of a response changes the client handle or its connection,
\* and the service goes on serving with the client connected.
C3_ClientErrors == []C3_Response /\ [][C3_Step]_vars

C3_Witness ==
    /\ Handled /\ req.handler = "delete_message" /\ Len(calls) = 2
    /\ calls[2].raised /\ resp.status = 500 /\ connected

\* C4 as stated: every error response is HTTP 500, a validation failure included.
C4_Only500 == (Handled /\ resp.status # 200) => resp.status = 500

\* the largest limit the endpoint accepts, for the endpoints that take one
LimitOf(h) ==
    CASE h = "get_chats" -> 200 [] h = "get_messages" -> 100 [] h = "get_history" -> 500
      [] h = "search_messages" -> 100 [] h = "get_user_photos" -> 50 [] h = "search_gifs" -> 50

\* the request fails the validation its endpoint declares
Invalid(r) ==
    \/ r.handler \in {"get_chats", "get_messages", "get_history", "search_messages",
                      "get_user_photos", "search_gifs"} /\ r.limit > LimitOf(r.handler)
    \/ r.handler \in {"send_reaction", "reply_to_message", "edit_message", "delete_message",
                      "forward_message", "pin_message"} /\ ~NumericLooking(r.message_id)
    \/ r.handler \in {"send_message", "reply_to_message", "edit_message", "send_reaction"}
       /\ r.text = NoneStr
    \/ r.handler \in {"search_messages", "search_gifs", "search_contacts"} /\ r.query = NoneStr
    \/ r.handler = "search_contacts" /\ r.query = <<>>
    \/ r.handler = "forward_message" /\ r.to_chat_id = NoneStr
    \/ r.handler = "send_file" /\ r.file = NoneStr

\* C4, amended: an exception raised inside a handler is answered with HTTP 500 and
\* its message; a request that fails validation is answered with HTTP 422 before
\* the handler runs, with no call on the external client; no other error status
\* comes from the endpoints.
C4_ErrorStatuses ==
    Handled =>
        /\ resp.status \in {200, 422, 500}
        /\ resp.status = 422 <=> Invalid(req)
        /\ resp.status = 422 => calls = <<>>
        /\ resp.status = 500 =>
              resp.detail \in ErrMsgs \cup {ValueErrorMsg, AttributeErrorMsg, OSErrorMsg}

C4_Witness ==
    Handled /\ req.handler = "search_contacts" /\ req.query = <<>> /\ resp.status = 422

\* C5: get_messages never forwards a limit above 100: a larger limit is rejected
\* before any call on the client; and a request with limit 0 that is answered
\* carries an empty message list and count 0.
C5_MessagesLimit ==
    (Handled /\ req.handler = "get_messages") =>
        /\ \A i \in 1..Len(calls) : calls[i].op = "get_messages" => calls[i].limit <= 100
        /\ req.limit > 100 => (calls = <<>> /\ resp.status # 200)
        /\ (req.limit = 0 /\ resp.status = 200) =>
              (Len(resp.body.messages) = 0 /\ resp.body.count = 0)

C5_Witness ==
    /\ Handled /\ req.handler = "get_messages" /\ req.limit = 0 /\ resp.status = 200
    /\ resp.body.count = 0 /\ Len(calls) = 2 /\ calls[2].limit = 0

\* C6: get_chats with chat_type "user" returns exactly the dialogs whose entity is
\* a user, in the order the client returned them; with chat_type omitted it
\* returns one entry for every dialog; count is the number of entries.
C6_ChatsFilter ==
    (Handled /\ req.handler = "get_chats" /\ resp.status = 200) =>
        LET dialogs == calls[1].ret
            users == SelectSeq(dialogs, LAMBDA d : d.entity.cls = "User")
            chats == resp.body.chats
        IN /\ resp.body.count = Len(chats)
           /\ req.chat_type = T_user =>
                 /\ Len(chats) = Len(users)
                 /\ \A i \in 1..Len(users) :
                       chats[i] = DialogInfo(users[i]) /\ chats[i].type = "user"
           /\ req.chat_type = NoneStr =>
                 /\ Len(chats) = Len(dialogs)
                 /\ \A i \in 1..Len(dialogs) : chats[i] = DialogInfo(dialogs[i])

C6_Witness ==
    /\ Handled /\ req.handler = "get_chats" /\ resp.status = 200 /\ req.chat_type = T_user
    /\ Len(calls[1].ret) = 2 /\ calls[1].ret[1].entity.cls = "Chat"
    /\ calls[1].ret[2].entity.cls = "User" /\ resp.body.count = 1

EntityKeys(type) ==
    IF type = "user" THEN {"id", "type", "first_name", "last_name", "username", "phone"}
    ELSE IF type = "chat" THEN {"id", "type", "title"}
    ELSE {"id", "type", "title", "username"}

MessageKeys ==
    {"id", "date", "text", "out", "sender_name", "sender_id", "reply_to_msg_id",
     "has_media", "media_type"}

\* C7: every summary has the fixed set of keys of its kind whatever the input: an
\* optional field that is absent in the source object (reply target, media kind,
\* names, username, phone, title, last-message preview) is present with null.
C7_FixedKeys ==
    (Handled /\ resp.status = 200) =>
        /\ req.handler \in {"get_messages", "get_history", "search_messages"} =>
              \A i \in 1..Len(resp.body.messages) :
                 /\ DOMAIN resp.body.messages[i] = MessageKeys
                 /\ calls[2].ret[i].reply_to = NoneObj =>
                       resp.body.messages[i].reply_to_msg_id = NoneInt
        /\ req.handler = "get_chats" =>
              \A i \in 1..Len(resp.body.chats) :
                 "type" \in DOMAIN resp.body.chats[i] =>
                    DOMAIN resp.body.chats[i]
                       = EntityKeys(resp.body.chats[i].type) \cup {"unread_count", "last_message"}
        /\ req.handler \in {"get_chat", "get_me"} =>
              ("type" \in DOMAIN resp.body => DOMAIN resp.body = EntityKeys(resp.body.type))

\* t is s without its leading and trailing spaces
IsTrimOf(t, s) ==
    /\ t = <<>> \/ (t[1] # " " /\ t[Len(t)] # " ")
    /\ \E i \in 0..Len(s) :
          /\ i + Len(t) <= Len(s)
          /\ SubSeq(s, i + 1, i + Len(t)) = t
          /\ \A k \in (1..i) \cup ((i + Len(t) + 1)..Len(s)) : s[k] = " "

\* C8: the sender display name of format_message is first and last name joined by
\* one space and trimmed when the sender carries name fields, the title when it is
\* a group or channel, and "Unknown", never null or empty, when there is no sender,
\* no name, or no title; sender_id is the sender's id, or null without a sender.
C8_SenderName ==
    (fout # NoneObj /\ fin.cls = "Message") =>
        LET sender == fin.sender
            first == IF hasattr(sender, "first_name") /\ sender.first_name # NoneStr
                     THEN sender.first_name ELSE <<>>
            last == IF hasattr(sender, "last_name") /\ sender.last_name # NoneStr
                    THEN sender.last_name ELSE <<>>
        IN /\ fout.sender_name \notin {NoneStr, <<>>}
           /\ IF sender = NoneObj
              THEN fout.sender_name = Unknown /\ fout.sender_id = NoneInt
              ELSE /\ fout.sender_id = sender.id
                   /\ IF hasattr(sender, "first_name")
                      THEN \/ IsTrimOf(fout.sender_name, first \o <<" ">> \o last)
                           \/ fout.sender_name = Unknown /\ IsTrimOf(<<>>, first \o <<" ">> \o last)
                      ELSE IF hasattr(sender, "title") /\ sender.title \notin {NoneStr, <<>>}
                      THEN fout.sender_name = sender.title
                      ELSE fout.sender_name = Unknown

Present(tag, word) == Contains(tag, word)

\* the presence type name the client returned for the user, "Unknown" without one
RawTag(entity) ==
    IF hasattr(entity, "status") /\ entity.status # NoneObj THEN entity.status.name ELSE Unknown

\* C9: get_user_status maps a tag containing "Online" to "online", else containing
\* "Recently" to "recently", else "LastWeek" to "last_week", else "LastMonth" to
\* "last_month", else "Offline" to "offline", case-sensitively, and any other tag
\* to its lower-cased name ("Unknown" for a user without status); raw_status is
\* the tag unchanged.
C9_StatusLabel ==
    (Handled /\ req.handler = "get_user_status" /\ resp.status = 200) =>
        LET tag == RawTag(calls[1].ret)
            label == resp.body.status
        IN /\ resp.body.raw_status = tag
           /\ Present(tag, W_Online) => label = W_online
           /\ (~Present(tag, W_Online) /\ Present(tag, W_Recently)) => label = W_recently
           /\ (~Present(tag, W_Online) /\ ~Present(tag, W_Recently) /\ Present(tag, W_LastWeek))
                 => label = W_last_week
           /\ (~Present(tag, W_Online) /\ ~Present(tag, W_Recently) /\ ~Present(tag, W_LastWeek)
               /\ Present(tag, W_LastMonth)) => label = W_last_month
           /\ (~Present(tag, W_Online) /\ ~Present(tag, W_Recently) /\ ~Present(tag, W_LastWeek)
               /\ ~Present(tag, W_LastMonth) /\ Present(tag, W_Offline)) => label = W_offline
           /\ (\A w \in {W_Online, W_Recently, W_LastWeek, W_LastMonth, W_Offline} :
                  ~Present(tag, w))
                 => (Len(label) = Len(tag) /\ \A i \in 1..Len(tag) : label[i] = lower(<<tag[i]>>)[1])
           /\ tag = W_Foo => label = <<"f", "o", "o">>
           /\ tag = Unknown => label = <<"u", "n", "k", "n", "o", "w", "n">>

C9_Witness ==
    /\ Handled /\ req.handler = "get_user_status" /\ resp.status = 200
    /\ resp.body.raw_status = W_Offline \o W_Online /\ resp.body.status = W_online

KnownKinds == {"User", "Chat", "Channel"}

\* the display fields of each kind
DisplayFields(cls) ==
    IF cls = "User" THEN {"first_name", "last_name", "username", "phone"} ELSE {"title"}

\* id and display fields of the summary of a known kind: each field is the
\* entity's, or null when the entity does not carry it
EntityProjection ==
    /\ (fin.cls \in KnownKinds /\ fout = NoneObj) => ENABLED ApplyFormatEntity
    /\ (fin.cls \in KnownKinds /\ fout # NoneObj) =>
          /\ fout.id = fin.id
          /\ \A k \in DisplayFields(fin.cls) :
                k \in DOMAIN fout /\ fout[k] = (IF k \in DOMAIN fin THEN fin[k] ELSE NoneStr)

\* C10 as stated: format_entity returns for every user, group and channel, with
\* any optional field missing, a summary with id, a kind label among user, group,
\* channel, and the display fields of the kind, null when absent.
C10_LabelGroup ==
    /\ EntityProjection
    /\ (fin.cls \in KnownKinds /\ fout # NoneObj) => fout.type \in {"user", "group", "channel"}

\* C10, amended: the same, with the kind label "user" for a user, "chat" for a
\* group and "channel" for a channel.
C10_EntityTotal ==
    /\ EntityProjection
    /\ (fin.cls \in KnownKinds /\ fout # NoneObj) =>
          fout.type = (IF fin.cls = "User" THEN "user"
                       ELSE IF fin.cls = "Chat" THEN "chat" ELSE "channel")

C10_Witness ==
    /\ fin.cls = "Chat" /\ ~hasattr(fin, "title") /\ fout # NoneObj
    /\ fout.type = "chat" /\ fout.title = NoneStr

\* the same call: the same operation with the same arguments
SameCall(c, d) ==
    /\ c.op = d.op /\ c.kind = d.kind /\ c.str = d.str /\ c.int = d.int /\ c.limit = d.limit

\* no call is issued again after it failed, and none at all after one has raised
NoRetryNoCallAfterRaise ==
    /\ \A i \in 1..Len(calls) : \A j \in (i + 1)..Len(calls) :
          calls[i].raised => ~SameCall(calls[i], calls[j])
    /\ \A i \in 1..Len(calls) : calls[i].raised => i = Len(calls)

\* C11 as stated: no handler, forward_message included, issues more than two calls
\* on the external client for one request, retries a failed call, or issues a call
\* after one has raised.
C11_AtMostTwo == Handled => (Len(calls) <= 2 /\ NoRetryNoCallAfterRaise)

\* C11, amended: forward_message issues at most three calls (two resolutions and
\* the forward call) and every other handler at most two; no handler retries a
\* failed call or issues a call after one has raised.
C11_CallBudget ==
    Handled =>
        /\ Len(calls) <= (IF req.handler = "forward_message" THEN 3 ELSE 2)
        /\ NoRetryNoCallAfterRaise

C11_Witness ==
    /\ Handled /\ req.handler = "forward_message" /\ Len(calls) = 3
    /\ calls[1].op = "get_entity" /\ calls[2].op = "get_entity"
    /\ calls[3].op = "forward_messages" /\ calls[3].raised /\ resp.status = 500

====
